---- MODULE Spec2Model ----
(***************************************************************************)
(* EarwigBot copyright-violation detector: CopyvioMixIn.copyvio_check and  *)
(* CopyvioMixIn.copyvio_compare (earwigbot/wiki/copyvios/__init__.py).     *)
(*                                                                         *)
(* One call of either method is modelled as a sequential process whose     *)
(* program counter pc walks the statements of the method.  The search      *)
(* engine, the web (urllib2 opener) and the wall clock are the             *)
(* environment: their answers are chosen nondeterministically.             *)
(* The Markov chain classes (copyvios/markov.py) and the text parsers      *)
(* (copyvios/parsers.py) are modelled after their design description.      *)
(***************************************************************************)
EXTENDS Integers, Sequences, FiniteSets, Bags, TLC

\* ------------------------------------------------------------------ bounds
\* Longest text (in tokens) of the exhaustively enumerated short texts.
MaxLen == 3
\* Largest number of chunks the article parser hands back.
MaxChunks == 2
\* Longest list of URLs one search() call returns.
MaxResults == 2
\* The environment may advance the clock on its own up to this reading.
MaxTime == 1

\* MarkovChain order N: a window of N tokens is one transition.  The order is
\* a configuration parameter of the chain; texts are sized to match it.
Degree == 2

\* ------------------------------------------------------- program constants
\* copyvio_check: "if article_chain.size() < 20:  # Auto-fail".
MinArticleSize == 20

\* ------------------------------------------------------------ plain values
None == "None"
URLs == {"u1", "u2"}
\* A markup item (wiki syntax in an article, a tag in a fetched page).
TAG == 0
WordsShort == {1, 2}

Min(a, b) == IF a <= b THEN a ELSE b

\* Python floats that arise here are ratios of two sizes: <<num, den>>, den > 0.
Ratio(n, d) == <<n, d>>
Zero == Ratio(0, 1)
Less(a, b) == a[1] * b[2] < b[1] * a[2]
Leq(a, b) == a[1] * b[2] <= b[1] * a[2]
SameValue(a, b) == a[1] * b[2] = b[1] * a[2]

\* ------------------------------------------------------------------- texts
\* Every text over two words that is at least one window long.
ShortTexts == UNION {[1..n -> WordsShort] : n \in Degree..MaxLen}
\* A text shorter than one window.
TooShort == <<1>>
\* A long article: two further words in turn, 24 transitions, in markup.
LongLen == MinArticleSize + Degree + 3
LongWords == [i \in 1..LongLen |-> 3 + (i % 2)]
WBig == <<TAG>> \o LongWords \o <<TAG>>
\* Fetched pages related to the long article: all of it, the first half of
\* its transitions, a third of them from the middle.
PSame == SubSeq(LongWords, 1, 13) \o <<TAG, TAG>> \o SubSeq(LongWords, 14, LongLen)
PHalf == <<TAG>> \o SubSeq(LongWords, 1, Degree + 11)
PThird == SubSeq(LongWords, 5, Degree + 11) \o <<TAG>>
PTagsOnly == <<TAG, TAG>>

\* A page that shares no word with the long article.
PUnrelated == [i \in 1..Degree |-> 1]

Articles == ShortTexts \cup {WBig, TooShort, <<>>}
\* The pages the web may hold.  A short article is compared with every short
\* text; the long article with its related pages and, standing for every page
\* that shares no word with it, one unrelated page.
OtherBodies == {PSame, PHalf, PThird, PUnrelated, PTagsOnly, TooShort, <<>>}
Bodies == ShortTexts \cup OtherBodies

\* ArticleTextParser(text).strip() / HTMLTextParser(html).strip(): markup is
\* removed, the words stay in reading order.
IsWord(x) == x # TAG
Strip(text) == SelectSeq(text, IsWord)

\* ----------------------------------------------------------- Markov chains
\* A chain maps each edge <<prefix of N-1 tokens, next token>> to its count.
Windows(words) == 1..(Len(words) - Degree + 1)
Edge(words, i) == <<SubSeq(words, i, i + Degree - 2), words[i + Degree - 1]>>
MarkovChain(words) ==
    [e \in {Edge(words, i) : i \in Windows(words)} |->
        Cardinality({i \in Windows(words) : Edge(words, i) = e})]

\* size(): the sum of all counts.
Size(chain) == BagCardinality(chain)

MarkovChainIntersection(mc1, mc2) ==
    [e \in (DOMAIN mc1) \cap (DOMAIN mc2) |-> Min(mc1[e], mc2[e])]

EmptyChain == MarkovChain(<<>>)

\* ------------------------------------------------------------- environment
\* What self._opener.open(url) can do: raise URLError, or answer with a body
\* and possibly a "Content-Encoding: gzip" header.  GZ marks bytes that
\* GzipFile can decode; any other body makes gzipper.read() raise IOError.
GZ == -1
Gzipped(body) == <<GZ>> \o body
\* The calls made on the way can also fail with an exception that is neither:
\* open() while the status line is read (httplib.BadStatusLine, no URLError),
\* response.read() when the connection stalls (socket.timeout), and
\* gzipper.read() on a damaged deflate stream (zlib.error, no IOError).
Faults ==
    {[urlerror |-> FALSE, gzip |-> FALSE, body |-> <<>>, raises |-> "BadStatusLine"],
     [urlerror |-> FALSE, gzip |-> FALSE, body |-> <<>>, raises |-> "socket.timeout"],
     [urlerror |-> FALSE, gzip |-> TRUE, body |-> <<>>, raises |-> "zlib.error"]}
ResponsesWith(bodies) ==
    {[urlerror |-> TRUE, gzip |-> FALSE, body |-> <<>>, raises |-> None]}
    \cup {[urlerror |-> FALSE, gzip |-> FALSE, body |-> b, raises |-> None] :
            b \in bodies}
    \cup {[urlerror |-> FALSE, gzip |-> TRUE, body |-> b, raises |-> None] :
            b \in {Gzipped(PHalf), PThird, <<>>}}
    \cup Faults
ResponsesShort == ResponsesWith(Bodies)
ResponsesLong == ResponsesWith(OtherBodies)
\* The responses a page fetched for an article of this chain may get.
Responses(article) ==
    IF Size(article) >= MinArticleSize THEN ResponsesLong ELSE ResponsesShort

\* A value of html: absent (Python None) or the bytes read.
Html(present, bytes) == [present |-> present, bytes |-> bytes]
\* Python truth value: "if not html".
Falsy(html) == ~html.present \/ html.bytes = <<>>

\* The exception that leaves _open_url_ignoring_errors, or None: line 103
\* catches URLError only, line 105 is outside the try, line 112 catches
\* IOError only.
OpenUrlRaises(resp) == resp.raises

\* What _open_url_ignoring_errors returns when no exception leaves it.
OpenUrlIgnoringErrors(resp) ==
    IF resp.urlerror THEN Html(FALSE, <<>>)
    ELSE IF resp.gzip /\ resp.body # <<>> /\ Head(resp.body) = GZ
         THEN Html(TRUE, Tail(resp.body))
         ELSE Html(TRUE, resp.body)

\* What searcher.search(chunk) can return: any short list of URLs.
SearchResults == UNION {[1..n -> URLs] : n \in 0..MaxResults}

\* ---------------------------------------------------------- call arguments
Engines == {"Yahoo! BOSS", "Google"}
MinConfidences == {Ratio(0, 1), Ratio(1, 2), Ratio(1, 1)}
MaxQueriesChoices == {-1, 0, 1}
InterquerySleeps == {1, 2}
\* The defaults of copyvio_check, used where a call does not take the argument.
DefaultMaxQueries == -1
DefaultInterquerySleep == 1

VARIABLES
    op,               \* the method called: "check" or "compare"
    engine,           \* self._site._search_config[0]
    oauth,            \* whether "import oauth2" succeeded
    content,          \* self.get(): the page's wikitext
    url_arg,          \* copyvio_compare's url argument
    min_confidence, max_queries, interquery_sleep,
    pc,               \* the statement the call is at
    searcher, handled_urls, best_confidence, best_match, num_queries,
    best_chains, chunks, article_chain, last_query, urls, diff,
    result,           \* <<>> until the call returns, then <<CopyvioCheckResult>>
    error,            \* the exception the call ended with, or None
    now,              \* the wall clock
    search_log,       \* history: one entry per searcher.search() call
    search_times,     \* history: the clock at the two latest search() calls
    fetch_log,        \* history: one entry per _open_url_ignoring_errors() call
    score_log,        \* history: the confidence each evaluated URL scored
    keep_scores       \* whether score_log is kept in this specification

args == <<op, engine, oauth, content, url_arg, min_confidence, max_queries,
          interquery_sleep, keep_scores>>
locals == <<searcher, handled_urls, best_confidence, best_match, num_queries,
            best_chains, chunks, article_chain, last_query, urls, diff>>
history == <<search_log, search_times, fetch_log, score_log>>
call == <<args, pc, locals, result, error, history>>
detector == <<call, now>>

\* ------------------------------------------- Task (tasks/afc_copyvios.py)
\* Task.run is started by the bot once per edited page, each start in a thread
\* of its own; all starts share one Task object and one SQL database.
NumRuns == 3
Runs == 1..NumRuns
Titles == {"A", "B"}
\* page.pageid()
PageId(title) == IF title = "A" THEN 1 ELSE 2
PageIds == {PageId(t) : t \in Titles}
NoRun == 0

VARIABLES
    run_pc,           \* where each run of Task.run is
    run_page,         \* kwargs["page"] of each run
    run_result,       \* what page.copyvio_check returned to the run
    db_access_lock,   \* self.db_access_lock: the run holding it, or NoRun
    processed,        \* the rows of the SQL table "processed": page ids
    ignore_list,      \* self.ignore_list
    checks            \* history: page.copyvio_check calls made, per page id

task_vars == <<run_pc, run_page, run_result, db_access_lock, processed,
               ignore_list, checks>>

\* No Task.run is in progress.
TaskIdle ==
    /\ run_pc = [r \in Runs |-> "end"]
    /\ run_page = [r \in Runs |-> "A"]
    /\ run_result = [r \in Runs |-> None]
    /\ db_access_lock = NoRun
    /\ processed = {}
    /\ ignore_list = {}
    /\ checks = [i \in PageIds |-> 0]

\* --------------------------------------------- copyvio_check, two at once
\* Two copyvio_check calls in two threads (two pages, two callers).  Every
\* name that copyvio_check assigns is a local of the call, so each call has a
\* record of its own locals; the calls share the wall clock only.
Invocations == {1, 2}

VARIABLES
    par               \* for each of the two calls: its pc, locals and history

par_vars == <<par>>

\* The locals of a call before line 171, with the history kept for the call:
\* its search() calls, the URLs they returned, the URLs it fetched, and the
\* clock reading of its own latest "last_query = time()".
ParLocals(at) ==
    [pc |-> at, handled_urls |-> <<>>, best_confidence |-> Zero,
     best_match |-> None, num_queries |-> 0,
     best_chains |-> <<EmptyChain, EmptyChain>>, chunks |-> <<>>, urls |-> <<>>,
     last_query |-> 0, diff |-> 0, result |-> <<>>,
     searches |-> 0, returned |-> {}, fetched |-> <<>>, own_stamp |-> 0]

\* No pair of calls is modelled.
ParIdle == par = [i \in Invocations |-> ParLocals("none")]

\* ------------------------------------------------------------ cancellation
VARIABLES
    cancel_requested  \* <<>>, or once the caller has asked the running call to
                      \* stop: how many searches and fetches it had made by then

\* No cancellation has been requested.
CancelIdle == cancel_requested = <<>>

\* ------------------------------------------- get_site (tools/functions.py)
Missing == "Missing"

VARIABLES
    wiki_config,      \* config.wiki: its "defaultSite" and "sites" entries
    site_args,        \* the arguments of the get_site call
    site_result       \* <<>> until get_site has ended, then <<its outcome>>

site_vars == <<wiki_config, site_args, site_result>>

\* No get_site call is modelled.
SiteIdle ==
    /\ wiki_config = [defaultSite |-> Missing, has_sites |-> FALSE, sites |-> <<>>]
    /\ site_args = [name |-> None, project |-> None, lang |-> None]
    /\ site_result = <<>>

\* ------------------------------------- _get_cookiejar (tools/functions.py)
\* Threads that call _get_cookiejar, each once.
NumCallers == 3
Callers == 1..NumCallers
NoJar == 0

VARIABLES
    cookiejar,        \* the module global _cookiejar: NoJar (None) or a jar
    jar_pc,           \* where each caller is in _get_cookiejar
    jar_got,          \* the jar each caller was returned, NoJar before that
    jars_made,        \* history: LWPCookieJar objects created; jar k is the k-th
    jar_loads         \* history: load() calls made, per jar

jar_vars == <<cookiejar, jar_pc, jar_got, jars_made, jar_loads>>

\* No _get_cookiejar call is modelled.
JarIdle ==
    /\ cookiejar = NoJar
    /\ jar_pc = [t \in Callers |-> "none"]
    /\ jar_got = [t \in Callers |-> NoJar]
    /\ jars_made = 0
    /\ jar_loads = [j \in Callers |-> 0]

\* ------------------------------------- PermissionsDB (config/permissions.py)
\* One PermissionsDB object: a thread runs load() while others ask is_admin or
\* is_owner.  The database file is not written in between.
MaxRows == 2
ADMIN == 1
OWNER == 2
Ranks == {ADMIN, OWNER}
\* _User(nick, ident, host); "*" is the wildcard.
PermRules == {<<"*", "*", "h">>, <<"a", "*", "*">>, <<"b", "i", "h">>}
PermUsers == {<<"a", "i", "h">>, <<"b", "i", "g">>, <<"c", "i", "g">>}
\* self._data = {}: no rank is a key.
NoData == [r \in Ranks |-> [present |-> FALSE, rules |-> <<>>]]

VARIABLES
    perm_table,       \* whether the database file has the table "users"
    perm_rows,        \* the rows of the table "users", in SELECT order
    perm_data,        \* self._data: rank -> list of rules, a rank may be no key
    perm_lock,        \* whether self._db_access_lock is held
    load_pc,          \* where the load() call is
    load_i,           \* the row the loop of line 67 is at
    ask,              \* the user and rank is_admin / is_owner is asked about
    answers           \* history: what _is_rank returned, and at which load_pc

perm_vars == <<perm_table, perm_rows, perm_data, perm_lock, load_pc, load_i,
               ask, answers>>

\* No PermissionsDB is modelled.
PermIdle ==
    /\ perm_table = FALSE
    /\ perm_rows = <<>>
    /\ perm_data = NoData
    /\ perm_lock = FALSE
    /\ load_pc = "none"
    /\ load_i = 0
    /\ ask = [user |-> <<"*", "*", "*">>, rank |-> ADMIN]
    /\ answers = {}

\* What each part of the program leaves alone.
outside == <<task_vars, par_vars, cancel_requested, site_vars, jar_vars,
             perm_vars>>
not_task == <<detector, par_vars, cancel_requested, site_vars, jar_vars,
              perm_vars>>
not_par == <<call, task_vars, cancel_requested, site_vars, jar_vars, perm_vars>>
not_cancel == <<detector, task_vars, par_vars, site_vars, jar_vars, perm_vars>>
not_site == <<detector, task_vars, par_vars, cancel_requested, jar_vars,
              perm_vars>>
not_jar == <<detector, task_vars, par_vars, cancel_requested, site_vars,
             perm_vars>>
not_perm == <<detector, task_vars, par_vars, cancel_requested, site_vars,
              jar_vars>>

vars == <<detector, outside>>

InSeq(x, s) == \E i \in 1..Len(s) : s[i] = x

CopyvioCheckResult(violation, confidence, url, queries, article, chains) ==
    [violation |-> violation, confidence |-> confidence, url |-> url,
     queries |-> queries, article_chain |-> article,
     source_chain |-> chains[1], delta_chain |-> chains[2]]

\* A call is entered: no statement has run, no other component is active.
Entry ==
    /\ pc = "start"
    /\ searcher = None
    /\ handled_urls = <<>>
    /\ best_confidence = Zero
    /\ best_match = None
    /\ num_queries = 0
    /\ best_chains = <<EmptyChain, EmptyChain>>
    /\ chunks = <<>>
    /\ article_chain = EmptyChain
    /\ last_query = 0
    /\ urls = <<>>
    /\ diff = 0
    /\ result = <<>>
    /\ error = None
    /\ now = 0
    /\ search_log = <<>>
    /\ search_times = <<>>
    /\ fetch_log = <<>>
    /\ score_log = <<>>
    /\ TaskIdle
    /\ ParIdle
    /\ CancelIdle
    /\ SiteIdle
    /\ JarIdle
    /\ PermIdle

Init ==
    /\ op \in {"check", "compare"}
    /\ engine \in Engines
    /\ oauth \in BOOLEAN
    /\ content \in Articles
    /\ min_confidence \in MinConfidences
    /\ IF op = "check"
       THEN /\ max_queries \in MaxQueriesChoices
            /\ interquery_sleep \in InterquerySleeps
            /\ url_arg = None
       ELSE /\ max_queries = DefaultMaxQueries
            /\ interquery_sleep = DefaultInterquerySleep
            /\ url_arg \in URLs
    /\ keep_scores = FALSE
    /\ Entry

\* ---------------------------------------------------- _select_search_engine
\* Variant: the test for the oauth2 package is left out.
SelectSearchEngine_NoOauthTest ==
    IF engine = "Yahoo! BOSS"
    THEN [raises |-> None, searcher |-> "YahooBOSSSearchEngine"]
    ELSE [raises |-> "UnknownSearchEngineError", searcher |-> None]

SelectSearchEngine ==
    IF engine = "Yahoo! BOSS"
    THEN IF ~oauth
         THEN [raises |-> "UnsupportedSearchEngineError", searcher |-> None]
         ELSE [raises |-> None, searcher |-> "YahooBOSSSearchEngine"]
    ELSE [raises |-> "UnknownSearchEngineError", searcher |-> None]

\* ------------------------------------------------- _copyvio_compare_content
\* Variant: the confidence is taken from the source chain, not from the delta.
CopyvioCompareContent_SourceSize(article, html) ==
    IF Falsy(html)
    THEN [kind |-> "int", conf |-> Zero, chains |-> <<EmptyChain, EmptyChain>>]
    ELSE LET source == MarkovChain(Strip(html.bytes))
             delta == MarkovChainIntersection(article, source)
         IN IF Size(article) = 0
            THEN [kind |-> "ZeroDivisionError", conf |-> Zero,
                  chains |-> <<source, delta>>]
            ELSE [kind |-> "tuple",
                  conf |-> Ratio(Size(source), Size(article)),
                  chains |-> <<source, delta>>]

\* Returns the bare int 0 when the page could not be read, else the pair
\* (confidence, (source, delta)); the division raises on an empty article.
CopyvioCompareContent(article, html) ==
    IF Falsy(html)
    THEN [kind |-> "int", conf |-> Zero, chains |-> <<EmptyChain, EmptyChain>>]
    ELSE LET source == MarkovChain(Strip(html.bytes))
             delta == MarkovChainIntersection(article, source)
         IN IF Size(article) = 0
            THEN [kind |-> "ZeroDivisionError", conf |-> Zero,
                  chains |-> <<source, delta>>]
            ELSE [kind |-> "tuple",
                  conf |-> Ratio(Size(delta), Size(article)),
                  chains |-> <<source, delta>>]

\* "conf, chains = self._copyvio_compare_content(...)": unpacking the int
\* raises TypeError, the division error passes through.
UnpackError(cmp) ==
    IF cmp.kind = "int" THEN "TypeError"
    ELSE IF cmp.kind = "ZeroDivisionError" THEN "ZeroDivisionError"
    ELSE None

\* The exception, if any, that "conf, chains = self._copyvio_compare_content(
\* article_chain, url)" ends with: one from the fetch (line 145) comes first.
FetchError(resp, cmp) ==
    IF OpenUrlRaises(resp) # None THEN OpenUrlRaises(resp) ELSE UnpackError(cmp)

\* The history entry of a fetch: the URL, the number of queries counted before
\* it, and whether the fetcher returned None.
FetchCall(url, html) ==
    [url |-> url, query |-> num_queries, absent |-> ~html.present]

\* The history of scores: the URL and the confidence of each evaluation that
\* gave the caller a confidence (lines 194 and 237), in the order made.
ScoreLog(url, resp, cmp) ==
    IF keep_scores /\ FetchError(resp, cmp) = None
    THEN Append(score_log, [url |-> url, conf |-> cmp.conf])
    ELSE score_log

\* The clock is read by copyvio_check only: at line 182, when search() is
\* called, at line 200 and at line 203.  Time that passes between two readings
\* is let pass just before the later one: before the search() call, while the
\* URLs of a result are fetched, and after the sleep.
ClockedPcs == {"search", "for", "stamp"}

\* The environment: time passes.
Tick ==
    /\ op = "check"
    /\ pc \in ClockedPcs
    /\ now < MaxTime
    /\ now' = now + 1
    /\ UNCHANGED <<outside, args, pc, locals, result, error, history>>

\* ------------------------------------------------------------ copyvio_check
\* Line 171, the selection fails: the exception leaves copyvio_check.
CheckSelectRaises ==
    /\ op = "check"
    /\ pc = "start"
    /\ SelectSearchEngine.raises # None
    /\ pc' = "raised"
    /\ error' = SelectSearchEngine.raises
    /\ UNCHANGED <<outside, args, locals, result, now, history>>

\* parser.chunk(max_queries): a finite list of distinct chunks, in reading
\* order; chunk i is named i.
ChunkLists == {[i \in 1..n |-> i] : n \in 0..MaxChunks}

\* Variant: the size of the article is looked at before the engine, so a small
\* article gets past line 171 with any engine configuration.
CheckSetup_FloorFirst ==
    /\ op = "check"
    /\ pc = "start"
    /\ SelectSearchEngine.raises = None
          \/ Size(MarkovChain(Strip(content))) < MinArticleSize
    /\ searcher' = SelectSearchEngine.searcher
    /\ handled_urls' = <<>>
    /\ best_confidence' = Zero
    /\ best_match' = None
    /\ num_queries' = 0
    /\ best_chains' = <<EmptyChain, MarkovChainIntersection(EmptyChain, EmptyChain)>>
    /\ chunks' \in ChunkLists
    /\ article_chain' = MarkovChain(Strip(content))
    /\ last_query' = now
    /\ pc' = "floor"
    /\ UNCHANGED <<outside, args, urls, diff, result, error, now, history>>

\* Lines 171-182: the searcher and the locals.
CheckSetup ==
    /\ op = "check"
    /\ pc = "start"
    /\ SelectSearchEngine.raises = None
    /\ searcher' = SelectSearchEngine.searcher
    /\ handled_urls' = <<>>
    /\ best_confidence' = Zero
    /\ best_match' = None
    /\ num_queries' = 0
    /\ best_chains' = <<EmptyChain, MarkovChainIntersection(EmptyChain, EmptyChain)>>
    /\ chunks' \in ChunkLists
    /\ article_chain' = MarkovChain(Strip(content))
    /\ last_query' = now
    /\ pc' = "floor"
    /\ UNCHANGED <<outside, args, urls, diff, result, error, now, history>>

\* Variant: the floor test is left out.
CheckAutoFail_NoFloor ==
    /\ op = "check"
    /\ pc = "floor"
    /\ pc' = "loop"
    /\ UNCHANGED <<outside, args, locals, result, error, now, history>>

\* Lines 184-186: auto-fail very small articles.
CheckAutoFail ==
    /\ op = "check"
    /\ pc = "floor"
    /\ IF Size(article_chain) < MinArticleSize
       THEN /\ result' = <<CopyvioCheckResult(FALSE, best_confidence, best_match,
                                             num_queries, article_chain, best_chains)>>
            /\ pc' = "done"
       ELSE /\ pc' = "loop"
            /\ UNCHANGED result
    /\ UNCHANGED <<outside, args, locals, error, now, history>>

\* Variant: one query too many.
LoopCondition_OffByOne ==
    /\ chunks # <<>>
    /\ Less(best_confidence, min_confidence)
    /\ (max_queries < 0 \/ num_queries <= max_queries)

\* Variant: the confidence does not end the loop.
LoopCondition_IgnoresConfidence ==
    /\ chunks # <<>>
    /\ (max_queries < 0 \/ num_queries < max_queries)

\* Lines 188-189: the loop condition.
LoopCondition ==
    /\ chunks # <<>>
    /\ Less(best_confidence, min_confidence)
    /\ (max_queries < 0 \/ num_queries < max_queries)

CheckWhile ==
    /\ op = "check"
    /\ pc = "loop"
    /\ pc' = IF LoopCondition THEN "search" ELSE "ret"
    /\ UNCHANGED <<outside, args, locals, result, error, now, history>>

\* Variant: nothing is dropped.
Unhandled_KeepsAll(found, handled) == found

\* Line 191: drop the URLs handled before.
Unhandled(found, handled) == SelectSeq(found, LAMBDA u : ~InSeq(u, handled))

\* The history entry of a search() call: the chunk sent, best_confidence at
\* that moment, and the returned URLs that line 191 dropped.
SearchCall(found) ==
    [chunk |-> Head(chunks), best |-> best_confidence,
     dropped |-> {found[i] : i \in {j \in 1..Len(found) : InSeq(found[j], handled_urls)}}]

\* The clock when a search() call is issued and last_query at that moment,
\* kept for the latest call and the one before it.
SearchTimes ==
    Append(IF Len(search_times) < 2 THEN search_times ELSE Tail(search_times),
           [at |-> now, stamp |-> last_query])

\* Variant: the chunk queried stays in the list (chunks[0], not chunks.pop(0)).
CheckSearch_KeepsChunk ==
    /\ op = "check"
    /\ pc = "search"
    /\ \E found \in SearchResults :
          /\ urls' = Unhandled(found, handled_urls)
          /\ search_log' = Append(search_log, SearchCall(found))
    /\ search_times' = SearchTimes
    /\ pc' = "for"
    /\ UNCHANGED <<outside, args, searcher, handled_urls, best_confidence, best_match,
                   num_queries, best_chains, chunks, article_chain, last_query, diff,
                   result, error, now, fetch_log, score_log>>

\* Lines 190-191: one query, with the next chunk.
CheckSearch ==
    /\ op = "check"
    /\ pc = "search"
    /\ \E found \in SearchResults :
          /\ urls' = Unhandled(found, handled_urls)
          /\ search_log' = Append(search_log, SearchCall(found))
    /\ search_times' = SearchTimes
    /\ chunks' = Tail(chunks)
    /\ pc' = "for"
    /\ UNCHANGED <<outside, args, searcher, handled_urls, best_confidence, best_match,
                   num_queries, best_chains, article_chain, last_query, diff,
                   result, error, now, fetch_log, score_log>>

\* Line 190, the query fails: search() raises SearchQueryError (docstring,
\* lines 167-169), which leaves copyvio_check.
CheckSearchRaises ==
    /\ op = "check"
    /\ pc = "search"
    /\ chunks' = Tail(chunks)
    /\ search_log' = Append(search_log, SearchCall(<<>>))
    /\ search_times' = SearchTimes
    /\ pc' = "raised"
    /\ error' = "SearchQueryError"
    /\ UNCHANGED <<outside, args, searcher, handled_urls, best_confidence, best_match,
                   num_queries, best_chains, article_chain, last_query, urls, diff,
                   result, now, fetch_log, score_log>>

\* Variant: a candidate that only equals the best so far replaces it.
CheckForUrl_TakesEqual ==
    /\ op = "check"
    /\ pc = "for"
    /\ urls # <<>>
    /\ \E resp \in Responses(article_chain) :
          LET url == Head(urls)
              html == OpenUrlIgnoringErrors(resp)
              cmp == CopyvioCompareContent(article_chain, html)
          IN /\ handled_urls' = Append(handled_urls, url)
             /\ fetch_log' = Append(fetch_log, FetchCall(url, html))
             /\ score_log' = ScoreLog(url, resp, cmp)
             /\ urls' = Tail(urls)
             /\ IF FetchError(resp, cmp) # None
                THEN /\ pc' = "raised"
                     /\ error' = FetchError(resp, cmp)
                     /\ UNCHANGED <<best_confidence, best_match, best_chains>>
                ELSE /\ pc' = "for"
                     /\ error' = error
                     /\ IF Leq(best_confidence, cmp.conf)
                        THEN /\ best_confidence' = cmp.conf
                             /\ best_match' = url
                             /\ best_chains' = cmp.chains
                        ELSE UNCHANGED <<best_confidence, best_match, best_chains>>
    /\ UNCHANGED <<outside, args, searcher, num_queries, chunks, article_chain, last_query,
                   diff, result, now, search_log, search_times>>

\* Lines 192-198: the body of the for loop, for the next URL of the list.
CheckForUrl ==
    /\ op = "check"
    /\ pc = "for"
    /\ urls # <<>>
    /\ \E resp \in Responses(article_chain) :
          LET url == Head(urls)
              html == OpenUrlIgnoringErrors(resp)
              cmp == CopyvioCompareContent(article_chain, html)
          IN /\ handled_urls' = Append(handled_urls, url)
             /\ fetch_log' = Append(fetch_log, FetchCall(url, html))
             /\ score_log' = ScoreLog(url, resp, cmp)
             /\ urls' = Tail(urls)
             /\ IF FetchError(resp, cmp) # None
                THEN /\ pc' = "raised"
                     /\ error' = FetchError(resp, cmp)
                     /\ UNCHANGED <<best_confidence, best_match, best_chains>>
                ELSE /\ pc' = "for"
                     /\ error' = error
                     /\ IF Less(best_confidence, cmp.conf)
                        THEN /\ best_confidence' = cmp.conf
                             /\ best_match' = url
                             /\ best_chains' = cmp.chains
                        ELSE UNCHANGED <<best_confidence, best_match, best_chains>>
    /\ UNCHANGED <<outside, args, searcher, num_queries, chunks, article_chain, last_query,
                   diff, result, now, search_log, search_times>>

\* Lines 199-202: the for loop is over; count the query, read the clock and
\* sleep for what is left of interquery_sleep.  sleep(d) returns once d
\* seconds have passed.
SleepFor(d) == IF d < interquery_sleep THEN interquery_sleep - d ELSE 0

CheckCountAndSleep ==
    /\ op = "check"
    /\ pc = "for"
    /\ urls = <<>>
    /\ num_queries' = num_queries + 1
    /\ diff' = now - last_query
    /\ now' = now + SleepFor(now - last_query)
    /\ pc' = "stamp"
    /\ UNCHANGED <<outside, args, searcher, handled_urls, best_confidence, best_match,
                   best_chains, chunks, article_chain, last_query, urls,
                   result, error, history>>

\* Line 203.
CheckStamp ==
    /\ op = "check"
    /\ pc = "stamp"
    /\ last_query' = now
    /\ pc' = "loop"
    /\ UNCHANGED <<outside, args, searcher, handled_urls, best_confidence, best_match,
                   num_queries, best_chains, chunks, article_chain, urls, diff,
                   result, error, now, history>>

\* Variant: the threshold itself is no violation.
CheckReturn_Strict ==
    /\ op = "check"
    /\ pc = "ret"
    /\ result' = <<CopyvioCheckResult(Less(min_confidence, best_confidence),
                                      best_confidence, best_match, num_queries,
                                      article_chain, best_chains)>>
    /\ pc' = "done"
    /\ UNCHANGED <<outside, args, locals, error, now, history>>

\* Lines 205-210.
CheckReturn ==
    /\ op = "check"
    /\ pc = "ret"
    /\ result' = <<CopyvioCheckResult(Leq(min_confidence, best_confidence),
                                      best_confidence, best_match, num_queries,
                                      article_chain, best_chains)>>
    /\ pc' = "done"
    /\ UNCHANGED <<outside, args, locals, error, now, history>>

\* ---------------------------------------------------------- copyvio_compare
\* Variant: copyvio_compare selects the search engine as copyvio_check does.
CompareSetup_Selecting ==
    /\ op = "compare"
    /\ pc = "start"
    /\ IF SelectSearchEngine.raises # None
       THEN /\ pc' = "raised"
            /\ error' = SelectSearchEngine.raises
            /\ UNCHANGED <<searcher, article_chain>>
       ELSE /\ pc' = "score"
            /\ error' = error
            /\ searcher' = SelectSearchEngine.searcher
            /\ article_chain' = MarkovChain(Strip(content))
    /\ UNCHANGED <<outside, args, handled_urls, best_confidence, best_match,
                   num_queries, best_chains, chunks, last_query, urls, diff,
                   result, now, history>>

\* Lines 234-236.
CompareSetup ==
    /\ op = "compare"
    /\ pc = "start"
    /\ article_chain' = MarkovChain(Strip(content))
    /\ pc' = "score"
    /\ UNCHANGED <<outside, args, searcher, handled_urls, best_confidence, best_match,
                   num_queries, best_chains, chunks, last_query, urls, diff,
                   result, error, now, history>>

\* Lines 237-244: confidence and chains are kept in best_confidence and
\* best_chains, the locals of the same role in copyvio_check.
CompareScore ==
    /\ op = "compare"
    /\ pc = "score"
    /\ \E resp \in Responses(article_chain) :
          LET html == OpenUrlIgnoringErrors(resp)
              cmp == CopyvioCompareContent(article_chain, html)
          IN /\ fetch_log' = Append(fetch_log, FetchCall(url_arg, html))
             /\ score_log' = ScoreLog(url_arg, resp, cmp)
             /\ IF FetchError(resp, cmp) # None
                THEN /\ pc' = "raised"
                     /\ error' = FetchError(resp, cmp)
                     /\ UNCHANGED <<best_confidence, best_chains, result>>
                ELSE /\ pc' = "done"
                     /\ error' = error
                     /\ best_confidence' = cmp.conf
                     /\ best_chains' = cmp.chains
                     /\ result' = <<CopyvioCheckResult(Leq(min_confidence, cmp.conf),
                                                       cmp.conf, url_arg, 0,
                                                       article_chain, cmp.chains)>>
    /\ UNCHANGED <<outside, args, searcher, handled_urls, best_match, num_queries, chunks,
                   article_chain, last_query, urls, diff, now, search_log,
                   search_times>>

Next ==
    \/ Tick
    \/ CheckSelectRaises
    \/ CheckSetup
    \/ CheckAutoFail
    \/ CheckWhile
    \/ CheckSearch
    \/ CheckSearchRaises
    \/ CheckForUrl
    \/ CheckCountAndSleep
    \/ CheckStamp
    \/ CheckReturn
    \/ CompareSetup
    \/ CompareScore

Spec == Init /\ [][Next]_vars

\* ------------------------------------------- copyvio_check, kept running
\* copyvio_check alone.  The clock moves with the sleeps of the call only, so
\* the call is made with and without a pause between queries to have the
\* rate-limit step both sleep and not sleep.
InitLive ==
    /\ op = "check"
    /\ engine \in Engines
    /\ oauth \in BOOLEAN
    /\ content \in Articles
    /\ min_confidence \in MinConfidences
    /\ max_queries \in MaxQueriesChoices
    /\ interquery_sleep \in {0, DefaultInterquerySleep}
    /\ url_arg = None
    /\ keep_scores = FALSE
    /\ Entry

NextLive ==
    \/ CheckSelectRaises
    \/ CheckSetup
    \/ CheckAutoFail
    \/ CheckWhile
    \/ CheckSearch
    \/ CheckSearchRaises
    \/ CheckForUrl
    \/ CheckCountAndSleep
    \/ CheckStamp
    \/ CheckReturn

\* The thread of a call keeps running, and every search() and fetch returns
\* or raises: a statement that can run does run.
SpecLive == InitLive /\ [][NextLive]_vars /\ WF_vars(NextLive)

\* --------------------------------------------------- copyvio_check, scored
\* copyvio_check alone, with a search engine that is selected and answers, and
\* with the confidence of every evaluated URL kept in score_log.
InitScores ==
    /\ op = "check"
    /\ engine = "Yahoo! BOSS"
    /\ oauth = TRUE
    /\ content \in Articles
    /\ min_confidence \in MinConfidences
    /\ max_queries \in MaxQueriesChoices
    /\ interquery_sleep = DefaultInterquerySleep
    /\ url_arg = None
    /\ keep_scores = TRUE
    /\ Entry

NextScores ==
    \/ CheckSetup
    \/ CheckAutoFail
    \/ CheckWhile
    \/ CheckSearch
    \/ CheckForUrl
    \/ CheckCountAndSleep
    \/ CheckStamp
    \/ CheckReturn

SpecScores == InitScores /\ [][NextScores]_vars

\* ------------------------------------------------------------ cancellation
\* The caller of a running copyvio_check asks it to stop, at one of the points
\* where the call is about to wait: before a search() call or before a fetch.
\* copyvio_check takes no cancellation argument and no statement of lines
\* 171-210 reads such a signal, so the request changes nothing the call sees.
RequestCancel ==
    /\ op = "check"
    /\ cancel_requested = <<>>
    /\ pc = "search" \/ (pc = "for" /\ urls # <<>>)
    /\ cancel_requested' = <<[searches |-> Len(search_log),
                              fetches |-> Len(fetch_log)]>>
    /\ UNCHANGED not_cancel

NextCancel ==
    \/ RequestCancel
    \/ Tick
    \/ CheckSelectRaises
    \/ CheckSetup
    \/ CheckAutoFail
    \/ CheckWhile
    \/ CheckSearch
    \/ CheckSearchRaises
    \/ CheckForUrl
    \/ CheckCountAndSleep
    \/ CheckStamp
    \/ CheckReturn
    \/ CompareSetup
    \/ CompareScore

SpecCancel == Init /\ [][NextCancel]_vars

\* No copyvio_check / copyvio_compare call is modelled.
DetectorIdle ==
    /\ op = "none"
    /\ engine = "Yahoo! BOSS"
    /\ oauth = TRUE
    /\ content = <<>>
    /\ url_arg = None
    /\ min_confidence = Zero
    /\ max_queries = DefaultMaxQueries
    /\ interquery_sleep = DefaultInterquerySleep
    /\ pc = "none"
    /\ searcher = None
    /\ handled_urls = <<>>
    /\ best_confidence = Zero
    /\ best_match = None
    /\ num_queries = 0
    /\ best_chains = <<EmptyChain, EmptyChain>>
    /\ chunks = <<>>
    /\ article_chain = EmptyChain
    /\ last_query = 0
    /\ urls = <<>>
    /\ diff = 0
    /\ result = <<>>
    /\ error = None
    /\ now = 0
    /\ search_log = <<>>
    /\ search_times = <<>>
    /\ fetch_log = <<>>
    /\ score_log = <<>>
    /\ keep_scores = FALSE

\* ------------------------------------------------------------------- Task
IgnoreLists == {{}, {"B"}}

InitTask ==
    /\ DetectorIdle
    /\ ParIdle
    /\ CancelIdle
    /\ SiteIdle
    /\ JarIdle
    /\ PermIdle
    /\ run_pc = [r \in Runs |-> "start"]
    /\ run_page \in [Runs -> Titles]
    /\ run_result = [r \in Runs |-> None]
    /\ db_access_lock = NoRun
    /\ processed \in SUBSET PageIds
    /\ ignore_list \in IgnoreLists
    /\ checks = [i \in PageIds |-> 0]

\* Leaving the "with self.db_access_lock" block, by return or by exception.
Leave(r, to) ==
    /\ db_access_lock' = NoRun
    /\ run_pc' = [run_pc EXCEPT ![r] = to]

\* Lines 69-70: the shutoff page is enabled.
RunShutoff(r) ==
    /\ run_pc[r] = "start"
    /\ run_pc' = [run_pc EXCEPT ![r] = "end"]
    /\ UNCHANGED <<not_task, run_page, run_result, db_access_lock, processed,
                   ignore_list, checks>>

\* Lines 69-72: the page is looked up; the run goes on to take the lock.
RunGetPage(r) ==
    /\ run_pc[r] = "start"
    /\ run_pc' = [run_pc EXCEPT ![r] = "lock"]
    /\ UNCHANGED <<not_task, run_page, run_result, db_access_lock, processed,
                   ignore_list, checks>>

\* Lines 73-74: "with self.db_access_lock" blocks until the lock is free.
RunAcquire(r) ==
    /\ run_pc[r] = "lock"
    /\ db_access_lock = NoRun
    /\ db_access_lock' = r
    /\ run_pc' = [run_pc EXCEPT ![r] = "process"]
    /\ UNCHANGED <<not_task, run_page, run_result, processed, ignore_list, checks>>

\* has_been_processed (lines 114-122): is there a row with this page id.
HasBeenProcessed(pageid) == pageid \in processed

\* Lines 79-89: the ignore list and the lookup in the table.
RunLookup(r) ==
    /\ run_pc[r] = "process"
    /\ IF run_page[r] \in ignore_list \/ HasBeenProcessed(PageId(run_page[r]))
       THEN Leave(r, "end")
       ELSE /\ run_pc' = [run_pc EXCEPT ![r] = "check"]
            /\ UNCHANGED db_access_lock
    /\ UNCHANGED <<not_task, run_page, run_result, processed, ignore_list, checks>>

\* What page.copyvio_check(...) can do: raise, or return a result whose
\* violation is true ("violation") or false ("clean").
CheckOutcomes == {"raises", "violation", "clean"}

\* Lines 91-93: the call of page.copyvio_check.  An exception leaves process
\* and run; the lock is released on the way.
RunCheck(r) ==
    /\ run_pc[r] = "check"
    /\ checks' = [checks EXCEPT ![PageId(run_page[r])] = @ + 1]
    /\ \E outcome \in CheckOutcomes :
          IF outcome = "raises"
          THEN /\ Leave(r, "failed")
               /\ UNCHANGED run_result
          ELSE /\ run_result' = [run_result EXCEPT ![r] = outcome]
               /\ run_pc' = [run_pc EXCEPT ![r] = "report"]
               /\ UNCHANGED db_access_lock
    /\ UNCHANGED <<not_task, run_page, processed, ignore_list>>

\* Lines 94-112.  With a violation, line 99 builds the template from the
\* format string "\{\{{0}|url={1}|confidence={2}\}\}": the backslashes escape
\* nothing, str.format reads all of it as one replacement field and raises.
\* Without one, line 110 formats "...{1} at {2}..." with two arguments and
\* raises IndexError.  Either exception leaves process before page.edit
\* (lines 103-105) and before log_processed (line 112), which are never run.
RunReport(r) ==
    /\ run_pc[r] = "report"
    /\ Leave(r, "failed")
    /\ UNCHANGED <<not_task, run_page, run_result, processed, ignore_list, checks>>

NextTask ==
    \/ \E r \in Runs : RunShutoff(r)
    \/ \E r \in Runs : RunGetPage(r)
    \/ \E r \in Runs : RunAcquire(r)
    \/ \E r \in Runs : RunLookup(r)
    \/ \E r \in Runs : RunCheck(r)
    \/ \E r \in Runs : RunReport(r)

SpecTask == InitTask /\ [][NextTask]_vars

\* ----------------------------------------------- copyvio_check, two at once
\* Both calls check an article above the size floor with a usable engine, the
\* default max_queries and interquery_sleep, and a min_confidence that only a
\* full copy reaches.
ParArticle == MarkovChain(Strip(WBig))
ParMinConfidence == Ratio(1, 1)
ParChunks == <<1, 2>>
\* What search() returns to either call, and what the web answers.
ParResults == {<<"u1">>, <<"u2", "u1">>}
ParBodies == {PSame, PUnrelated}

InitPar ==
    /\ DetectorIdle
    /\ TaskIdle
    /\ CancelIdle
    /\ SiteIdle
    /\ JarIdle
    /\ PermIdle
    /\ par = [i \in Invocations |-> ParLocals("start")]

Max(a, b) == IF a >= b THEN a ELSE b

\* Lines 171-186: the locals; the article is above the floor.
ParSetup(i) ==
    /\ par[i].pc = "start"
    /\ par' = [par EXCEPT ![i] = [@ EXCEPT !.pc = "loop", !.chunks = ParChunks,
                                           !.last_query = now, !.own_stamp = now]]
    /\ UNCHANGED <<not_par, now>>

\* Lines 188-189, on the locals of call i.
ParLoopCondition(i) ==
    /\ par[i].chunks # <<>>
    /\ Less(par[i].best_confidence, ParMinConfidence)
    /\ (DefaultMaxQueries < 0 \/ par[i].num_queries < DefaultMaxQueries)

ParWhile(i) ==
    /\ par[i].pc = "loop"
    /\ par' = [par EXCEPT ![i].pc = IF ParLoopCondition(i) THEN "search" ELSE "ret"]
    /\ UNCHANGED <<not_par, now>>

\* Variant: a lock around search(): a call waits while the other is in it.
ParSearchCall_Locked(i) ==
    /\ par[i].pc = "search"
    /\ \A j \in Invocations : par[j].pc # "searching"
    /\ par' = [par EXCEPT ![i] = [@ EXCEPT !.pc = "searching",
                                           !.chunks = Tail(@),
                                           !.searches = @ + 1]]
    /\ UNCHANGED <<not_par, now>>

\* Line 190: call i enters searcher.search(chunks.pop(0)).
ParSearchCall(i) ==
    /\ par[i].pc = "search"
    /\ par' = [par EXCEPT ![i] = [@ EXCEPT !.pc = "searching",
                                           !.chunks = Tail(@),
                                           !.searches = @ + 1]]
    /\ UNCHANGED <<not_par, now>>

\* Variant: one list of handled URLs for the two calls.
ParHandled_Shared(i) ==
    par[1].handled_urls \o par[2].handled_urls

\* The handled_urls that line 191 of call i reads.
ParHandled(i) == par[i].handled_urls

\* Lines 190-191: search() returns to call i; the handled URLs are dropped.
ParSearchReturn(i) ==
    /\ par[i].pc = "searching"
    /\ \E found \in ParResults :
          par' = [par EXCEPT ![i] = [@ EXCEPT
                      !.pc = "for",
                      !.urls = Unhandled(found, ParHandled(i)),
                      !.returned = @ \cup {found[k] : k \in 1..Len(found)}]]
    /\ UNCHANGED <<not_par, now>>

\* Lines 192-198, for the next URL of call i.
ParForUrl(i) ==
    /\ par[i].pc = "for"
    /\ par[i].urls # <<>>
    /\ \E body \in ParBodies :
          LET url == Head(par[i].urls)
              cmp == CopyvioCompareContent(ParArticle, Html(TRUE, body))
              better == Less(par[i].best_confidence, cmp.conf)
          IN par' = [par EXCEPT ![i] = [@ EXCEPT
                        !.handled_urls = Append(@, url),
                        !.fetched = Append(@, url),
                        !.urls = Tail(@),
                        !.best_confidence = IF better THEN cmp.conf ELSE @,
                        !.best_match = IF better THEN url ELSE @,
                        !.best_chains = IF better THEN cmp.chains ELSE @]]
    /\ UNCHANGED <<not_par, now>>

\* Lines 199-200: count the query and read the clock.
ParCount(i) ==
    /\ par[i].pc = "for"
    /\ par[i].urls = <<>>
    /\ par' = [par EXCEPT ![i] = [@ EXCEPT !.pc = "sleep",
                                           !.num_queries = @ + 1,
                                           !.diff = now - par[i].last_query]]
    /\ UNCHANGED <<not_par, now>>

\* Lines 201-203: call i sleeps for what is left of the interval, the other
\* call running meanwhile; when it wakes the clock has reached the end of its
\* sleep at least, and it takes the reading as its last_query.
ParSleepAndStamp(i) ==
    /\ par[i].pc = "sleep"
    /\ LET d == par[i].diff
           woken == Max(now, par[i].last_query + d +
                             (IF d < DefaultInterquerySleep
                              THEN DefaultInterquerySleep - d ELSE 0))
       IN /\ now' = woken
          /\ par' = [par EXCEPT ![i] = [@ EXCEPT !.pc = "loop",
                                                 !.last_query = woken,
                                                 !.own_stamp = woken]]
    /\ UNCHANGED not_par

\* Lines 205-210.
ParReturn(i) ==
    /\ par[i].pc = "ret"
    /\ par' = [par EXCEPT ![i] = [@ EXCEPT
                  !.pc = "done",
                  !.result = <<CopyvioCheckResult(
                                  Leq(ParMinConfidence, par[i].best_confidence),
                                  par[i].best_confidence, par[i].best_match,
                                  par[i].num_queries, ParArticle,
                                  par[i].best_chains)>>]]
    /\ UNCHANGED <<not_par, now>>

NextPar ==
    \/ \E i \in Invocations : ParSetup(i)
    \/ \E i \in Invocations : ParWhile(i)
    \/ \E i \in Invocations : ParSearchCall(i)
    \/ \E i \in Invocations : ParSearchReturn(i)
    \/ \E i \in Invocations : ParForUrl(i)
    \/ \E i \in Invocations : ParCount(i)
    \/ \E i \in Invocations : ParSleepAndStamp(i)
    \/ \E i \in Invocations : ParReturn(i)

SpecPar == InitPar /\ [][NextPar]_vars

\* ----------------------------------------------------------------- get_site
\* config.wiki["sites"] is a dict from site names to dicts; it is modelled as
\* the list of its items() in iteration order, each with the site's
\* "project" and "lang", either of which the dict may lack.  The key "sites"
\* itself, and "defaultSite", may be missing from config.wiki.
SiteNames == {"enwiki", "dewiki"}
SiteEntries ==
    [name : SiteNames, project : {"wikipedia", "wiktionary", Missing},
     lang : {"en", Missing}]
SiteLists ==
    {l \in UNION {[1..n -> SiteEntries] : n \in 0..Cardinality(SiteNames)} :
        \A i, j \in 1..Len(l) : l[i].name = l[j].name => i = j}
WikiConfigs ==
    {[defaultSite |-> d, has_sites |-> TRUE, sites |-> l] :
        d \in SiteNames \cup {Missing}, l \in SiteLists}
    \cup {[defaultSite |-> d, has_sites |-> FALSE, sites |-> <<>>] :
            d \in SiteNames \cup {Missing}}
SiteArgs ==
    [name : SiteNames \cup {None}, project : {"wikipedia", "wiktionary", None},
     lang : {"en", None}]

InitSite ==
    /\ DetectorIdle
    /\ TaskIdle
    /\ ParIdle
    /\ CancelIdle
    /\ JarIdle
    /\ PermIdle
    /\ wiki_config \in WikiConfigs
    /\ site_args \in SiteArgs
    /\ site_result = <<>>

\* How a get_site call ends: with the Site built for a name of the config
\* (_get_site_object_from_dict), or with an exception.
SiteFor(sitename) == [kind |-> "Site", name |-> sitename]
Raises(exception) == [kind |-> exception, name |-> None]

\* config.wiki["sites"][name] raises KeyError when either key is missing.
HasSite(cfg, name) ==
    cfg.has_sites /\ \E k \in 1..Len(cfg.sites) : cfg.sites[k].name = name

\* Lines 151-156 and 161-165: the first item whose project and lang match.
\* site["project"] and site["lang"] raise KeyError on a site without the key;
\* "and" does not look at lang when the project differs.
RECURSIVE ScanSites(_, _, _, _)
ScanSites(sites, k, project, lang) ==
    IF k > Len(sites) THEN Raises("SiteNotFoundError")
    ELSE IF sites[k].project = Missing THEN Raises("KeyError")
    ELSE IF sites[k].project # project THEN ScanSites(sites, k + 1, project, lang)
    ELSE IF sites[k].lang = Missing THEN Raises("KeyError")
    ELSE IF sites[k].lang = lang THEN SiteFor(sites[k].name)
    ELSE ScanSites(sites, k + 1, project, lang)

\* config.wiki["sites"].items() raises KeyError when there is no "sites".
FindByProject(cfg, project, lang) ==
    IF ~cfg.has_sites THEN Raises("KeyError")
    ELSE ScanSites(cfg.sites, 1, project, lang)

\* Lines 122-165.
GetSite(cfg, a) ==
    IF (a.project = None /\ a.lang # None) \/ (a.project # None /\ a.lang = None)
    THEN Raises("TypeError")
    ELSE IF a.name = None /\ a.project = None
    THEN IF cfg.defaultSite = Missing THEN Raises("SiteNotFoundError")
         ELSE IF ~HasSite(cfg, cfg.defaultSite) THEN Raises("SiteNotFoundError")
         ELSE SiteFor(cfg.defaultSite)
    ELSE IF a.name # None
    THEN IF HasSite(cfg, a.name) THEN SiteFor(a.name)
         ELSE IF a.project = None THEN Raises("SiteNotFoundError")
         ELSE FindByProject(cfg, a.project, a.lang)
    ELSE FindByProject(cfg, a.project, a.lang)

GetSiteCall ==
    /\ site_result = <<>>
    /\ site_result' = <<GetSite(wiki_config, site_args)>>
    /\ UNCHANGED <<not_site, wiki_config, site_args>>

NextSite == GetSiteCall

SpecSite == InitSite /\ [][NextSite]_vars

\* ----------------------------------------------------------- _get_cookiejar
\* Nothing in _get_cookiejar takes a lock: between any two of its reads and
\* writes of the global another thread may run.
InitJar ==
    /\ DetectorIdle
    /\ TaskIdle
    /\ ParIdle
    /\ CancelIdle
    /\ SiteIdle
    /\ PermIdle
    /\ cookiejar = NoJar
    /\ jar_pc = [t \in Callers |-> "call"]
    /\ jar_got = [t \in Callers |-> NoJar]
    /\ jars_made = 0
    /\ jar_loads = [j \in Callers |-> 0]

\* Line 55: "if _cookiejar is not None".
JarTest(t) ==
    /\ jar_pc[t] = "call"
    /\ jar_pc' = [jar_pc EXCEPT ![t] = IF cookiejar # NoJar THEN "found" ELSE "create"]
    /\ UNCHANGED <<not_jar, cookiejar, jar_got, jars_made, jar_loads>>

\* Lines 56 and 75: "return _cookiejar" reads the global again.
JarReturn(t) ==
    /\ jar_pc[t] \in {"found", "return"}
    /\ jar_got' = [jar_got EXCEPT ![t] = cookiejar]
    /\ jar_pc' = [jar_pc EXCEPT ![t] = "done"]
    /\ UNCHANGED <<not_jar, cookiejar, jars_made, jar_loads>>

\* Lines 58-59: a new LWPCookieJar is made and bound to the global.
JarCreate(t) ==
    /\ jar_pc[t] = "create"
    /\ jars_made' = jars_made + 1
    /\ cookiejar' = jars_made + 1
    /\ jar_pc' = [jar_pc EXCEPT ![t] = "load"]
    /\ UNCHANGED <<not_jar, jar_got, jar_loads>>

\* Lines 61-73: "_cookiejar.load()" loads the jar the global is bound to now.
\* LoadError and a missing file are handled; any other IOError is raised.
JarLoad(t) ==
    /\ jar_pc[t] = "load"
    /\ jar_loads' = [jar_loads EXCEPT ![cookiejar] = @ + 1]
    /\ \E to \in {"return", "raised"} : jar_pc' = [jar_pc EXCEPT ![t] = to]
    /\ UNCHANGED <<not_jar, cookiejar, jar_got, jars_made>>

NextJar ==
    \/ \E t \in Callers : JarTest(t)
    \/ \E t \in Callers : JarCreate(t)
    \/ \E t \in Callers : JarLoad(t)
    \/ \E t \in Callers : JarReturn(t)

SpecJar == InitJar /\ [][NextJar]_vars

\* ------------------------------------------------------------ PermissionsDB
\* _User.__eq__ (lines 99-106): each field is equal or a wildcard on a side.
FieldEq(a, b) == a = b \/ a = "*" \/ b = "*"
UserEq(u, v) == FieldEq(u[1], v[1]) /\ FieldEq(u[2], v[2]) /\ FieldEq(u[3], v[3])

\* Lines 68-71: the rule of a row is appended to the list of its rank, which
\* is made when the rank is no key yet.
LoadRowInto(data, row) ==
    [data EXCEPT ![row.rank] =
        [present |-> TRUE, rules |-> Append(data[row.rank].rules, row.user)]]

\* self._data after a load() that ran alone over these rows.
RECURSIVE Loaded(_)
Loaded(rows) ==
    IF rows = <<>> THEN NoData
    ELSE LoadRowInto(Loaded(SubSeq(rows, 1, Len(rows) - 1)), rows[Len(rows)])

PermRows == {[user |-> u, rank |-> r] : u \in PermRules, r \in Ranks}

\* An earlier load() has run alone, and a second load() is called.
InitPerm ==
    /\ DetectorIdle
    /\ TaskIdle
    /\ ParIdle
    /\ CancelIdle
    /\ SiteIdle
    /\ JarIdle
    /\ perm_table \in BOOLEAN
    /\ IF perm_table
       THEN perm_rows \in UNION {[1..n -> PermRows] : n \in 0..MaxRows}
       ELSE perm_rows = <<>>
    /\ perm_data = Loaded(perm_rows)
    /\ perm_lock = FALSE
    /\ load_pc = "start"
    /\ load_i = 0
    /\ ask \in [user : PermUsers, rank : Ranks]
    /\ answers = {}

\* Line 64: "self._data = {}", before the lock is taken.
LoadClear ==
    /\ load_pc = "start"
    /\ perm_data' = NoData
    /\ load_pc' = "connect"
    /\ UNCHANGED <<not_perm, perm_table, perm_rows, perm_lock, load_i, ask, answers>>

\* Lines 65-67: the lock is taken and the query is executed; without the
\* table it raises sqlite.OperationalError.
LoadAcquire ==
    /\ load_pc = "connect"
    /\ ~perm_lock
    /\ perm_lock' = TRUE
    /\ load_i' = 1
    /\ load_pc' = IF perm_table THEN "rows" ELSE "create"
    /\ UNCHANGED <<not_perm, perm_table, perm_rows, perm_data, ask, answers>>

\* Lines 67-71: one row of the result.
LoadRow ==
    /\ load_pc = "rows"
    /\ load_i <= Len(perm_rows)
    /\ perm_data' = LoadRowInto(perm_data, perm_rows[load_i])
    /\ load_i' = load_i + 1
    /\ UNCHANGED <<not_perm, perm_table, perm_rows, perm_lock, load_pc, ask, answers>>

\* Lines 72-73, and the end of the with block: the table is created.
LoadCreate ==
    /\ load_pc = "create"
    /\ perm_table' = TRUE
    /\ perm_lock' = FALSE
    /\ load_pc' = "done"
    /\ UNCHANGED <<not_perm, perm_rows, perm_data, load_i, ask, answers>>

\* The end of the with block: the rows are through, the lock is released.
LoadRelease ==
    /\ load_pc = "rows"
    /\ load_i > Len(perm_rows)
    /\ perm_lock' = FALSE
    /\ load_pc' = "done"
    /\ UNCHANGED <<not_perm, perm_table, perm_rows, perm_data, load_i, ask, answers>>

\* _is_rank (lines 52-59): "True" on the first rule equal to the user,
\* "False" when the rank is no key, and None (the function ends without a
\* return) when no rule of the rank equals the user.
IsRank(data, user, rank) ==
    IF ~data[rank].present THEN "False"
    ELSE IF \E i \in 1..Len(data[rank].rules) : UserEq(user, data[rank].rules[i])
         THEN "True"
         ELSE None

\* Lines 75-81: is_admin / is_owner, called by another thread; it takes no
\* lock.  The rule list is read in one step.
IsRankCall ==
    /\ load_pc # "none"
    /\ answers' = answers \cup
          {[during |-> load_pc, answer |-> IsRank(perm_data, ask.user, ask.rank)]}
    /\ UNCHANGED <<not_perm, perm_table, perm_rows, perm_data, perm_lock, load_pc,
                   load_i, ask>>

NextPerm ==
    \/ LoadClear
    \/ LoadAcquire
    \/ LoadRow
    \/ LoadCreate
    \/ LoadRelease
    \/ IsRankCall

SpecPerm == InitPerm /\ [][NextPerm]_vars

\* ------------------------------------------------------------------ claims
Returned == result # <<>>
Transitions(text) == Size(MarkovChain(Strip(text)))
One == Ratio(1, 1)

\* C1: in copyvio_check a candidate URL whose fetch returns None contributes
\* confidence 0 and does not make the call raise; the URLs and chunks after it
\* are still evaluated.  Stated as: no call that had a fetch return None has
\* ended with an exception.
C1_FetchFailureIsolated ==
    op = "check" =>
        \A i \in 1..Len(fetch_log) : fetch_log[i].absent => error = None

\* What copyvio_check returns for an article below the floor.
IsAutoFail(r) ==
    /\ r.violation = FALSE
    /\ SameValue(r.confidence, Zero)
    /\ r.url = None
    /\ r.queries = 0

C3_QueriesWithinBudget ==
    (op = "check" /\ max_queries >= 0) => Len(search_log) <= max_queries

\* The budget, not the chunks nor the confidence, ended the loop.
C3_Witness ==
    /\ op = "check"
    /\ pc = "done"
    /\ max_queries = 1
    /\ Len(search_log) = 1
    /\ chunks # <<>>
    /\ Less(best_confidence, min_confidence)

\* C4: every search() call of copyvio_check was issued while the running best
\* confidence was below min_confidence: once the best reaches min_confidence
\* no further search() is issued, and the best never decreases.
C4_NoSearchOnceConfident ==
    op = "check" =>
        /\ \A i \in 1..Len(search_log) :
              /\ Less(search_log[i].best, min_confidence)
              /\ Leq(search_log[i].best, best_confidence)
        /\ (pc = "search" => Less(best_confidence, min_confidence))

\* The confidence ended the loop: a chunk and the budget remained.
C4_Witness ==
    /\ op = "check"
    /\ pc = "done"
    /\ Len(search_log) = 1
    /\ chunks # <<>>
    /\ max_queries < 0
    /\ Leq(min_confidence, best_confidence)

C6_CompareUsesNoBackend ==
    op = "compare" =>
        /\ searcher = None
        /\ search_log = <<>>
        /\ error \notin {"UnknownSearchEngineError", "UnsupportedSearchEngineError",
                         "SearchQueryError"}
        /\ Returned => result[1].queries = 0

\* copyvio_compare returned although no engine can be selected.
C6_Witness ==
    /\ op = "compare"
    /\ pc = "done"
    /\ engine # "Yahoo! BOSS"
    /\ Returned
    /\ result[1].violation

\* C7: with an unknown engine name copyvio_check ends with
\* UnknownSearchEngineError, with the known engine and oauth2 missing it ends
\* with UnsupportedSearchEngineError, in both cases before any search() and any
\* fetch; and neither error ends a call that has issued a search or a fetch.
C7_SelectionFailsFast ==
    op = "check" =>
        /\ (engine # "Yahoo! BOSS" /\ pc # "start") =>
              (pc = "raised" /\ error = "UnknownSearchEngineError")
        /\ (engine = "Yahoo! BOSS" /\ ~oauth /\ pc # "start") =>
              (pc = "raised" /\ error = "UnsupportedSearchEngineError")
        /\ (engine # "Yahoo! BOSS" \/ ~oauth) =>
              (search_log = <<>> /\ fetch_log = <<>> /\ ~Returned)
        /\ error \in {"UnknownSearchEngineError", "UnsupportedSearchEngineError"} =>
              (search_log = <<>> /\ fetch_log = <<>>)

\* The known engine without its package, on an article above the floor.
C7_Witness ==
    /\ op = "check"
    /\ pc = "raised"
    /\ engine = "Yahoo! BOSS"
    /\ ~oauth
    /\ error = "UnsupportedSearchEngineError"
    /\ Transitions(content) >= MinArticleSize

InUnit(c) == Leq(Zero, c) /\ Leq(c, One)
DeltaBounded(article, source, delta) ==
    Size(delta) <= Min(Size(article), Size(source))

\* C8: the delta chain of every comparison kept by a call is no larger than
\* the article chain and the source chain, and the running confidence and the
\* confidence of every returned result lie in [0, 1].
C8_DeltaBoundedConfidenceInUnit ==
    /\ DeltaBounded(article_chain, best_chains[1], best_chains[2])
    /\ InUnit(best_confidence)
    /\ Returned =>
          /\ InUnit(result[1].confidence)
          /\ DeltaBounded(result[1].article_chain, result[1].source_chain,
                          result[1].delta_chain)

\* A comparison whose delta is not empty and smaller than both chains.
C8_Witness ==
    /\ Returned
    /\ Size(result[1].delta_chain) > 0
    /\ Size(result[1].delta_chain) < Size(result[1].source_chain)
    /\ Size(result[1].delta_chain) < Size(result[1].article_chain)

\* C9: a copyvio_check call that reached the loop returns violation = true
\* exactly when the returned confidence is >= min_confidence, and the returned
\* confidence is the running best at loop exit.
C9_ViolationIffConfident ==
    (op = "check" /\ pc = "done" /\ Size(article_chain) >= MinArticleSize) =>
        /\ Returned
        /\ result[1].violation <=> Leq(min_confidence, result[1].confidence)
        /\ result[1].confidence = best_confidence

\* The confidence is exactly the threshold, reached by a fetch.
C9_Witness ==
    /\ op = "check"
    /\ pc = "done"
    /\ Size(article_chain) >= MinArticleSize
    /\ fetch_log # <<>>
    /\ SameValue(result[1].confidence, min_confidence)
    /\ result[1].violation

\* C10: any two consecutive search() calls of one copyvio_check call are
\* issued at least interquery_sleep apart on the clock, the clock being free
\* to advance between any two statements.  search_times holds the latest call
\* and the one before it, so every consecutive pair is met in some state.
C10_SearchesSeparated ==
    op = "check" =>
        \A i \in 1..(Len(search_times) - 1) :
            search_times[i + 1].at - search_times[i].at >= interquery_sleep

\* What lines 200-203 do ensure: the sleep is measured from last_query, which
\* is read before the search() call is issued, so a search() call after the
\* first comes at least interquery_sleep after the last_query reading that
\* preceded the call before it.
RateLimitFromLastQuery ==
    op = "check" =>
        \A i \in 1..(Len(search_times) - 1) :
            /\ search_times[i + 1].at >= search_times[i].stamp + interquery_sleep
            /\ search_times[i + 1].stamp >= search_times[i].stamp + interquery_sleep
            /\ search_times[i].at >= search_times[i].stamp

\* C11: the confidence of a comparison is delta.size() / article.size() when
\* the article chain has transitions and 0 when it has none; no call fails on
\* the division, so copyvio_compare on an article of zero transitions returns
\* a result of confidence 0.
C11_ConfidenceIsRatioOrZero ==
    /\ error # "ZeroDivisionError"
    /\ Returned =>
          SameValue(result[1].confidence,
                    IF Size(result[1].article_chain) > 0
                    THEN Ratio(Size(result[1].delta_chain),
                               Size(result[1].article_chain))
                    ELSE Zero)

\* C12: over any number of Task.run starts in any interleaving, with runs in
\* which copyvio_check or page.edit raises included, copyvio_check is called
\* at most once per page id; a page about to be checked has no row in the
\* table; and the lookup and the insert of one run are not interleaved with
\* those of another run.
C12_CheckedAtMostOncePerPage ==
    /\ \A i \in PageIds : checks[i] <= 1
    /\ \A r \in Runs :
          run_pc[r] = "check" => ~HasBeenProcessed(PageId(run_page[r]))
    /\ \A r1, r2 \in Runs :
          (/\ run_pc[r1] \in {"process", "check", "report"}
           /\ run_pc[r2] \in {"process", "check", "report"}) => r1 = r2

\* The URLs a call has fetched.
FetchedBy(i) == {par[i].fetched[k] : k \in 1..Len(par[i].fetched)}

\* C13: two copyvio_check calls running in parallel share no dedup set, query
\* counter, best match or rate-limit clock, and no lock is held around
\* search().  For each call: once the URLs of a result are worked off, every
\* URL its own searches returned has been fetched by it, whatever the other
\* call has handled; its best match is a URL it fetched itself; the queries of
\* its result are its own search() calls; its last_query is its own latest
\* clock reading; and when it is about to call search() it can, whatever the
\* other call is doing.
C13_InvocationsIndependent ==
    \A i \in Invocations :
        /\ par[i].pc \in {"sleep", "loop", "search", "searching", "ret", "done"} =>
              FetchedBy(i) = par[i].returned
        /\ par[i].best_match # None => par[i].best_match \in FetchedBy(i)
        /\ par[i].result # <<>> =>
              /\ par[i].result[1].queries = par[i].searches
              /\ par[i].result[1].url = par[i].best_match
        /\ par[i].last_query = par[i].own_stamp
        /\ par[i].pc = "search" => ENABLED ParSearchCall(i)

\* The first call has returned after two queries and has handled u1 and u2;
\* the second is inside its first for loop, has fetched u2, and u1 is still on
\* its list.
C13_Witness ==
    /\ par[1].pc = "done"
    /\ par[1].result[1].queries = 2
    /\ FetchedBy(1) = {"u1", "u2"}
    /\ par[2].pc = "for"
    /\ par[2].searches = 1
    /\ par[2].fetched = <<"u2">>
    /\ par[2].urls = <<"u1">>

\* C14: copyvio_check observes a cancellation signal before each search()
\* call, before each fetch and during the rate-limit wait: once cancellation
\* has been requested at such a point the call makes no further search and no
\* further fetch, returns no CopyvioCheckResult, and ends with an error.
C14_CancellationObserved ==
    cancel_requested # <<>> =>
        /\ Len(search_log) = cancel_requested[1].searches
        /\ Len(fetch_log) = cancel_requested[1].fetches
        /\ ~Returned
        /\ pc \in {"done", "raised"} => error # None

\* The exceptions that only _open_url_ignoring_errors lets through.
FetcherErrors == {f.raises : f \in Faults}

\* C15: _open_url_ignoring_errors never raises to its caller: whatever fails
\* while the URL is opened and read the call returns None, and whatever fails
\* while a gzip response is decompressed it returns the original bytes.  So no
\* copyvio_check or copyvio_compare call ends with an exception of the fetch.
C15_FetcherNeverRaises == error \notin FetcherErrors

\* The sites of the configuration whose project and lang are the ones asked
\* for, by position in the list.
Matches(cfg, a) ==
    {k \in 1..Len(cfg.sites) :
        cfg.sites[k].project = a.project /\ cfg.sites[k].lang = a.lang}
FirstMatch(cfg, a) ==
    cfg.sites[CHOOSE k \in Matches(cfg, a) : \A m \in Matches(cfg, a) : k <= m].name

\* C16: get_site raises TypeError when exactly one of project and lang is
\* given; with no arguments it returns the configured default site; with a
\* name it returns the site of that name, and only when the name is not
\* configured and project and lang are given, the first site whose project
\* and lang match; wherever no site is found, a missing default included, it
\* raises SiteNotFoundError.
C16_GetSiteResolution ==
    site_result # <<>> =>
        LET a == site_args
            cfg == wiki_config
            r == site_result[1]
        IN IF (a.project = None) # (a.lang = None)
           THEN r = Raises("TypeError")
           ELSE IF a.name = None /\ a.project = None
           THEN r = IF HasSite(cfg, cfg.defaultSite)
                    THEN SiteFor(cfg.defaultSite)
                    ELSE Raises("SiteNotFoundError")
           ELSE IF a.name # None /\ HasSite(cfg, a.name)
           THEN r = SiteFor(a.name)
           ELSE IF a.project # None /\ Matches(cfg, a) # {}
           THEN r = SiteFor(FirstMatch(cfg, a))
           ELSE r = Raises("SiteNotFoundError")

\* C17: _get_cookiejar returns the same jar on every call in the process,
\* also when several threads make their first call at once: no two calls are
\* returned different jars, one jar at most is ever created, and load() is
\* called once at most.
C17_OneCookieJar ==
    /\ \A t1, t2 \in Callers :
          (jar_got[t1] # NoJar /\ jar_got[t2] # NoJar) => jar_got[t1] = jar_got[t2]
    /\ jars_made <= 1
    /\ \A j \in Callers : jar_loads[j] <= 1
    /\ Cardinality({j \in Callers : jar_loads[j] > 0}) <= 1

SelectionErrors == {"UnknownSearchEngineError", "UnsupportedSearchEngineError"}

WithoutQueries(r) ==
    [violation |-> r.violation, confidence |-> r.confidence, url |-> r.url,
     article_chain |-> r.article_chain, source_chain |-> r.source_chain,
     delta_chain |-> r.delta_chain]

\* The result, queries apart, of scoring one page of chain source, fetched
\* from url, against the article chain.
Scored(article, source, url) ==
    LET delta == MarkovChainIntersection(article, source)
        conf == IF Size(article) > 0
                THEN Ratio(Size(delta), Size(article)) ELSE Zero
    IN [violation |-> Leq(min_confidence, conf), confidence |-> conf,
        url |-> url, article_chain |-> article, source_chain |-> source,
        delta_chain |-> delta]

\* What copyvio_check returns, queries apart, below the size floor.
AutoFailed(article) ==
    [violation |-> FALSE, confidence |-> Zero, url |-> None,
     article_chain |-> article, source_chain |-> EmptyChain,
     delta_chain |-> EmptyChain]

\* A copyvio_check call that has returned after one query which returned one
\* URL (nothing is handled before the first query, so nothing was dropped).
OneQueryOneUrl ==
    /\ op = "check"
    /\ pc = "done"
    /\ Len(search_log) = 1
    /\ Len(fetch_log) = 1

ElapsedSinceQuery == (last_query + diff) - search_times[Len(search_times)].at

\* C20: at the rate-limit step copyvio_check sleeps exactly
\* max(0, interquery_sleep - elapsed), elapsed being the clock time since the
\* previous query was issued, and it does not sleep when no further query
\* will be issued.  At the statement after the sleep (line 203) the sleep just
\* taken is SleepFor(diff).
C20_SleepsExactDeficit ==
    (op = "check" /\ pc = "stamp") =>
        /\ SleepFor(diff) =
              (IF ElapsedSinceQuery < interquery_sleep
               THEN interquery_sleep - ElapsedSinceQuery ELSE 0)
        /\ ~LoopCondition => SleepFor(diff) = 0

\* What lines 199-202 do: the sleep is the deficit of the time since
\* last_query was read, taken in every iteration, the last one included.
SleepsDeficitFromLastQuery ==
    (op = "check" /\ pc = "stamp") =>
        /\ diff >= ElapsedSinceQuery
        /\ SleepFor(diff) = (IF diff < interquery_sleep
                             THEN interquery_sleep - diff ELSE 0)
        /\ now >= last_query + diff + SleepFor(diff)

\* The greatest confidence in a history of scores, 0 for the empty history.
RECURSIVE MaxScore(_)
MaxScore(log) ==
    IF log = <<>> THEN Zero
    ELSE LET rest == MaxScore(Tail(log))
         IN IF Less(Head(log).conf, rest) THEN rest ELSE Head(log).conf

\* The position of the first score in the history that equals its maximum.
FirstMaxAt(log) ==
    CHOOSE i \in 1..Len(log) :
        /\ SameValue(log[i].conf, MaxScore(log))
        /\ \A j \in 1..(i - 1) : ~SameValue(log[j].conf, MaxScore(log))

\* C21: the confidence copyvio_check returns is the maximum confidence of the
\* URLs evaluated in the call (0 if none); when that maximum is above 0 the
\* returned url is the first URL evaluated that scored it, and when no URL
\* scored above 0 the url is None and both returned chains are empty.
C21_BestIsFirstMaximum ==
    (op = "check" /\ keep_scores /\ Returned) =>
        /\ SameValue(result[1].confidence, MaxScore(score_log))
        /\ IF Less(Zero, MaxScore(score_log))
           THEN result[1].url = score_log[FirstMaxAt(score_log)].url
           ELSE /\ result[1].url = None
                /\ result[1].source_chain = EmptyChain
                /\ result[1].delta_chain = EmptyChain

\* copyvio_check returned after two different URLs scored the same confidence
\* above 0 with none scoring more: the first of the two is returned.
C21_Witness ==
    /\ op = "check"
    /\ keep_scores
    /\ Returned
    /\ \E i, j \in 1..Len(score_log) :
          /\ i < j
          /\ score_log[i].url # score_log[j].url
          /\ SameValue(score_log[i].conf, score_log[j].conf)
          /\ SameValue(score_log[i].conf, MaxScore(score_log))
          /\ Less(Zero, score_log[i].conf)
          /\ result[1].url = score_log[i].url

\* The chunks the search() calls of the call were made with, in call order.
QueriedChunks == [i \in 1..Len(search_log) |-> search_log[i].chunk]

\* C22: the queries field of a result of copyvio_check is the number of
\* search() calls made in the call; the chunks queried, followed by the chunks
\* left, are the list of chunks derived from the article, so the calls are no
\* more than the chunks and each chunk is queried at most once, in chunk
\* order.
C22_QueriesCountSearches ==
    op = "check" =>
        /\ (QueriedChunks \o chunks) \in ChunkLists
        /\ Returned =>
              /\ result[1].queries = Len(search_log)
              /\ result[1].queries <= Len(QueriedChunks \o chunks)

\* copyvio_check returned after two queries, made with chunks 1 and 2.
C22_Witness ==
    /\ op = "check"
    /\ Returned
    /\ result[1].queries = 2
    /\ QueriedChunks = <<1, 2>>
    /\ fetch_log # <<>>

\* C23: every result copyvio_check returns with violation = true carries a
\* url, the matched source, whatever min_confidence is, min_confidence <= 0
\* included.
C23_ViolationHasUrl ==
    (op = "check" /\ Returned /\ result[1].violation) => result[1].url # None

\* What lines 188-210 do ensure: a violation found for a min_confidence above
\* 0 carries the url of an evaluated page.
ViolationAboveZeroHasUrl ==
    (op = "check" /\ Returned /\ result[1].violation
        /\ Less(Zero, min_confidence)) =>
        \E i \in 1..Len(fetch_log) : result[1].url = fetch_log[i].url

\* C24: within one copyvio_check call no URL is fetched twice, whatever the
\* search results are, a result that lists one URL twice included.
C24_FetchedOncePerUrl ==
    op = "check" =>
        \A i, j \in 1..Len(fetch_log) :
            fetch_log[i].url = fetch_log[j].url => i = j

\* A copyvio_check call is over: it returned a result or raised.
CheckOver == op = "check" /\ pc \in {"done", "raised"}

\* C25: every copyvio_check call eventually returns a result or raises, each
\* search() and fetch returning: every search() call takes one chunk off the
\* finite chunk list, and a call is made only while a chunk is left.
C25_CheckTerminates ==
    /\ [][(op = "check" /\ search_log' # search_log) =>
            (chunks # <<>> /\ chunks' = Tail(chunks))]_vars
    /\ (op = "check") ~> CheckOver

\* A call returned after as many iterations as the article has chunks, every
\* page scoring below the threshold.
C25_Witness ==
    /\ CheckOver
    /\ Returned
    /\ Len(search_log) = 2
    /\ chunks = <<>>
    /\ Less(best_confidence, min_confidence)

\* The user asked about matches a rule of the rank asked about that is stored
\* in the database, which load() does not write to.
AskedHasRule ==
    /\ perm_table
    /\ \E i \in 1..Len(perm_rows) :
          /\ perm_rows[i].rank = ask.rank
          /\ UserEq(ask.user, perm_rows[i].user)

\* C26: while load() runs, is_admin (is_owner) never reports a user who
\* matches an admin (owner) rule stored in the database before and after the
\* reload as not an admin (owner).
C26_ReloadKeepsRank ==
    (load_pc # "none" /\ AskedHasRule) =>
        \A a \in answers : a.answer = "True"

\* What the code does ensure: the answer is right when load() is not between
\* its line 64 and the row that holds the rule.
RankRightOutsideLoad ==
    (load_pc # "none" /\ AskedHasRule) =>
        \A a \in answers : a.during \in {"start", "done"} => a.answer = "True"
====
